---- MODULE Spec2Model ----
(***************************************************************************)
(* A model of SORT's Scene (src/src/core/scene.cpp): the primitive and     *)
(* light registries, the brute-force intersection fallback, the cached     *)
(* bounding box and the light-power distribution.                          *)
(*                                                                         *)
(* Geometry is laid out along the query ray: a primitive is a point at     *)
(* (x, y); a ray starts at the origin and travels along +x, so it meets a  *)
(* primitive iff y = 0, at distance x.  Floats are modelled                *)
(* as exact rationals <<num, den>>; den = 0 is the result of dividing by   *)
(* zero (NaN for 0/0).                                                     *)
(***************************************************************************)
EXTENDS Integers, Sequences, FiniteSets, TLC

\* ------------------------------------------------------------------ bounds
\* largest x coordinate of a primitive (so hit distances are 0..MaxT)
MaxT == 2
\* most entities the registry m_entities holds
MaxEntities == 3
\* most primitives, and most lights, the scene's buffers hold
MaxBuf == 3
\* the sample u of SampleLight ranges over k / UDen, k in 0..UDen
UDen == 4

\* the y coordinates of primitives (0: on the ray's axis)
Lateral == {0, 1}
\* the powers a light may have
Powers == {0, 1, 3}
\* the render workers that call GetBBox
Threads == {1, 2}

\* FLT_MAX: above every distance of the model
FLT_MAX == MaxT + 1
Dist == 0..MaxT
\* the null pointer, as an index into a buffer (valid indices start at 1)
NULL == 0

\* ------------------------------------------------------------------ values
Min(a, b) == IF a <= b THEN a ELSE b
Max(a, b) == IF a >= b THEN a ELSE b

\* the primitives on the ray's axis, and one beside it
PrimSet == [x : Dist, y : {0}] \cup [x : {0}, y : Lateral \ {0}]
\* a ray is its valid range [0, tMax], tMax > 0; FLT_MAX is the unbounded ray
Rays == [tMax : (1..MaxT) \cup {FLT_MAX}]

\* an entity: what its FillScene appends to the scene
GeometryEntities == [prims : {<<p>> : p \in PrimSet}, lights : {<<>>}, sky : {FALSE}]
LightEntities == [prims : {<<>>}, lights : {<<w>> : w \in Powers}, sky : {FALSE}]
SkyEntity == [prims |-> <<>>, lights |-> <<>>, sky |-> TRUE]
EntitySet == GeometryEntities \cup LightEntities \cup {SkyEntity}
EmptyEntity == [prims |-> <<>>, lights |-> <<>>, sky |-> FALSE]
\* an <Entity> node of the scene file: skip = it has no filename attribute, or
\* MakeEntity does not know its class id; otherwise e is the entity it holds
NodeSet(E) == [skip : {TRUE}, e : {EmptyEntity}] \cup [skip : {FALSE}, e : E]

\* -------------------------------------------------------------------- BBox
PosInf == MaxT + 2
NegInf == 0 - 1
EmptyBox == [xlo |-> PosInf, xhi |-> NegInf, ylo |-> PosInf, yhi |-> NegInf]
BBoxUnion(a, b) ==
    [xlo |-> Min(a.xlo, b.xlo), xhi |-> Max(a.xhi, b.xhi),
     ylo |-> Min(a.ylo, b.ylo), yhi |-> Max(a.yhi, b.yhi)]
PrimitiveGetBBox(p) == [xlo |-> p.x, xhi |-> p.x, ylo |-> p.y, yhi |-> p.y]

\* ------------------------------------------------------------------ floats
\* a / b in float arithmetic, as an exact fraction; den = 0 marks NaN / Inf
FDiv(a, b) == <<a, b>>
IsNaN(f) == f[2] = 0
FracEq(f, g) == f[2] # 0 /\ g[2] # 0 /\ f[1] * g[2] = g[1] * f[2]
FracAdd(f, g) == <<f[1] * g[2] + g[1] * f[2], f[2] * g[2]>>

\* ------------------------------------------------------------------- state
VARIABLES
    m_entities,      \* Scene::m_entities: the entities loaded so far
    m_primitiveBuf,  \* Scene::m_primitiveBuf
    m_lights,        \* Scene::m_lights: [power, pick, writes] per light
    m_skyLight,      \* Scene::m_skyLight is set
    m_lightsDis,     \* Scene::m_lightsDis: [set, weights, cdf, total]
    m_BBox,          \* Scene::m_BBox, the mutable cached box
    accel,           \* GlobalConfiguration's accelerator
    accelCalls,      \* the calls the last PreProcess made on the accelerator, in order
    preProcessed,    \* PreProcess has returned
    bbPc, bbIt,      \* per worker: position and iterator inside GetBBox
    bbTmp,           \* per worker: the box a Union in progress has computed
    bbReturned,      \* some GetBBox call on the brute-force path has returned
    bbAfterReturn,   \* per worker: its call began after such a return
    last,            \* the last query completed on the scene as it is now, and
                     \* what it returned (NoQuery after a load or a preprocess)
    fault            \* "none", or how the process died

vars == <<m_entities, m_primitiveBuf, m_lights, m_skyLight, m_lightsDis, m_BBox,
          accel, accelCalls, preProcessed, bbPc, bbIt, bbTmp, bbReturned,
          bbAfterReturn, last, fault>>

sceneVars == <<m_entities, m_primitiveBuf, m_lights, m_skyLight, m_lightsDis,
               m_BBox>>

NoDistribution == [set |-> FALSE, weights |-> <<>>, cdf |-> <<>>, total |-> 0]
NoQuery ==
    [op |-> "none", path |-> "none", tMax |-> 0, withHit |-> FALSE,
     ret |-> FALSE, t |-> 0, primitive |-> NULL, u |-> 0, light |-> NULL,
     pdf |-> <<0, 1>>, box |-> EmptyBox]

Init ==
    /\ m_entities = <<>>
    /\ m_primitiveBuf = <<>>
    /\ m_lights = <<>>
    /\ m_skyLight = FALSE
    /\ m_lightsDis = NoDistribution
    /\ m_BBox = EmptyBox
    /\ accel \in [present : BOOLEAN, prims : {"null"}, built : {FALSE},
                  index : {<<>>}, box : {EmptyBox}]
    /\ accelCalls = <<>>
    /\ preProcessed = FALSE
    /\ bbPc = [t \in Threads |-> "idle"]
    /\ bbIt = [t \in Threads |-> 0]
    /\ bbTmp = [t \in Threads |-> EmptyBox]
    /\ bbReturned = FALSE
    /\ bbAfterReturn = [t \in Threads |-> FALSE]
    /\ last = NoQuery
    /\ fault = "none"

\* no worker is inside a query: LoadScene and PreProcess run before the workers
\* start (single-threaded setup)
WorkersIdle == \A t \in Threads : bbPc[t] = "idle"

\* ---------------------------------------------------------------- LoadScene
\* the entities the while loop pushes: the nodes with a filename and a known class
RECURSIVE ParsedEntities(_)
ParsedEntities(nodes) ==
    IF nodes = <<>> THEN <<>>
    ELSE (IF Head(nodes).skip THEN <<>> ELSE <<Head(nodes).e>>)
         \o ParsedEntities(Tail(nodes))

NewLight(w) == [power |-> w, pick |-> <<0, 1>>, writes |-> 0]
RECURSIVE NewLights(_)
NewLights(ws) ==
    IF ws = <<>> THEN <<>> ELSE <<NewLight(Head(ws))>> \o NewLights(Tail(ws))

\* Entity::FillScene: appends the entity's primitives and lights to the scene
FillScene(scene, e) ==
    [prims |-> scene.prims \o e.prims,
     lights |-> scene.lights \o NewLights(e.lights),
     sky |-> scene.sky \/ e.sky]

\* _generatePriBuf: FillScene for every entity of m_entities, in order
RECURSIVE GeneratePriBuf(_, _)
GeneratePriBuf(scene, entities) ==
    IF entities = <<>> THEN scene
    ELSE GeneratePriBuf(FillScene(scene, Head(entities)), Tail(entities))

\* lines 188-190: total_pdf accumulated over pdf[0..count-1]
RECURSIVE TotalPdfFrom(_, _, _)
TotalPdfFrom(pdf, i, acc) ==
    IF i > Len(pdf) THEN acc ELSE TotalPdfFrom(pdf, i + 1, acc + pdf[i])
TotalPdfSkipFirst(pdf) == TotalPdfFrom(pdf, 2, 0)
TotalPdf(pdf) == TotalPdfFrom(pdf, 1, 0)

\* Distribution1D(pdf, count): negative weights count as 0, prefix sums, total
RECURSIVE PrefixSums(_, _)
PrefixSums(ws, acc) ==
    IF ws = <<>> THEN <<>>
    ELSE <<acc + Head(ws)>> \o PrefixSums(Tail(ws), acc + Head(ws))
Distribution1D(pdf) ==
    LET ws == [i \in 1..Len(pdf) |-> Max(pdf[i], 0)]
        cdf == PrefixSums(ws, 0)
    IN  [set |-> TRUE, weights |-> ws, cdf |-> cdf,
         total |-> IF cdf = <<>> THEN 0 ELSE cdf[Len(cdf)]]

\* _genLightDistribution: the lights and the distribution it leaves
GenLightDistribution(lights, dis) ==
    IF Len(lights) = 0 THEN [lights |-> lights, dis |-> dis]
    ELSE LET pdf == [i \in 1..Len(lights) |-> lights[i].power]
             total_pdf == TotalPdf(pdf)
         IN  [lights |-> [i \in 1..Len(lights) |->
                            [lights[i] EXCEPT !.pick = FDiv(pdf[i], total_pdf),
                                              !.writes = @ + 1]],
              dis |-> Distribution1D(pdf)]

\* Scene::LoadScene on a scene file whose entities come from E
LoadSceneOf(E) ==
    /\ fault = "none"
    /\ WorkersIdle
    /\ \E n \in 0..(MaxEntities - Len(m_entities)) : \E nodes \in [1..n -> NodeSet(E)] :
         LET parsed == ParsedEntities(nodes)
             entities == m_entities \o parsed
             filled == GeneratePriBuf([prims |-> m_primitiveBuf, lights |-> m_lights,
                                       sky |-> m_skyLight], entities)
             dist == GenLightDistribution(filled.lights, m_lightsDis)
         IN  /\ Len(filled.prims) <= MaxBuf
             /\ Len(filled.lights) <= MaxBuf
             /\ m_entities' = entities
             /\ m_primitiveBuf' = filled.prims
             /\ m_skyLight' = filled.sky
             /\ m_lights' = dist.lights
             /\ m_lightsDis' = dist.dis
    /\ last' = NoQuery
    /\ UNCHANGED <<m_BBox, accel, accelCalls, preProcessed, bbPc, bbIt, bbTmp,
                   bbReturned, bbAfterReturn, fault>>

\* ------------------------------------------------------------- intersection
\* a hit record (Intersection): t and the primitive hit, as an index into the
\* buffer scanned; NoRecord is a null Intersection pointer (a shadow ray)
NoRecord == [given |-> FALSE, t |-> FLT_MAX, primitive |-> NULL]
Record(t, k) == [given |-> TRUE, t |-> t, primitive |-> k]

\* Primitive::GetIntersect (the k-th primitive of the buffer, p): whether r meets
\* p inside [0, r.tMax]; a given record is updated only by a strictly closer hit
PrimitiveHits(p, r) == p.y = 0 /\ 0 <= p.x /\ p.x <= r.tMax
PrimitiveGetIntersect(p, k, r, intersect) ==
    LET d == p.x
    IN  [flag |-> PrimitiveHits(p, r),
         intersect |-> IF intersect.given /\ PrimitiveHits(p, r) /\ d < intersect.t
                       THEN Record(d, k) ELSE intersect]

\* lines 102-107: the scan from index k on; done = the early return of line 106
RECURSIVE BfScan(_, _, _, _)
BfScan(buf, r, intersect, k) ==
    IF k > Len(buf) THEN [done |-> FALSE, intersect |-> intersect]
    ELSE LET res == PrimitiveGetIntersect(buf[k], k, r, intersect)
         IN  IF res.flag /\ ~intersect.given
             THEN [done |-> TRUE, intersect |-> intersect]
             ELSE BfScan(buf, r, res.intersect, k + 1)

\* a scan that stops at the first primitive that reports a hit
RECURSIVE BfScanFirstHit(_, _, _, _)
BfScanFirstHit(buf, r, intersect, k) ==
    IF k > Len(buf) THEN [done |-> FALSE, intersect |-> intersect]
    ELSE LET res == PrimitiveGetIntersect(buf[k], k, r, intersect)
         IN  IF res.flag
             THEN [done |-> ~intersect.given, intersect |-> res.intersect]
             ELSE BfScanFirstHit(buf, r, res.intersect, k + 1)

\* a scan that returns false as soon as one primitive reports no hit
RECURSIVE BfScanStopAtMiss(_, _, _, _)
BfScanStopAtMiss(buf, r, intersect, k) ==
    IF k > Len(buf) THEN [done |-> FALSE, intersect |-> intersect]
    ELSE LET res == PrimitiveGetIntersect(buf[k], k, r, intersect)
         IN  IF res.flag /\ ~intersect.given
             THEN [done |-> TRUE, intersect |-> intersect]
             ELSE IF ~res.flag /\ ~intersect.given
                  THEN [done |-> FALSE, intersect |-> intersect]
                  ELSE BfScanStopAtMiss(buf, r, res.intersect, k + 1)

\* Scene::_bfIntersect
BfIntersectWith(scan, r) ==
    IF scan.done THEN [ret |-> TRUE, intersect |-> scan.intersect]
    ELSE IF ~scan.intersect.given THEN [ret |-> FALSE, intersect |-> scan.intersect]
    ELSE [ret |-> scan.intersect.t < r.tMax /\ scan.intersect.primitive # NULL,
          intersect |-> scan.intersect]
BfIntersectFirstHit(buf, r, intersect) ==
    BfIntersectWith(BfScanFirstHit(buf, r,
        IF intersect.given THEN [intersect EXCEPT !.t = FLT_MAX] ELSE intersect, 1), r)
BfIntersectStopAtMiss(buf, r, intersect) ==
    BfIntersectWith(BfScanStopAtMiss(buf, r,
        IF intersect.given THEN [intersect EXCEPT !.t = FLT_MAX] ELSE intersect, 1), r)
BfIntersect(buf, r, intersect) ==
    BfIntersectWith(BfScan(buf, r,
        IF intersect.given THEN [intersect EXCEPT !.t = FLT_MAX] ELSE intersect, 1), r)

\* Accelerator::GetIntersect over the index it built: the globally closest hit
\* inside [0, r.tMax] into a given record; any hit for a shadow ray
RECURSIVE AccelScan(_, _, _, _)
AccelScan(index, r, intersect, k) ==
    IF k > Len(index) THEN [flag |-> FALSE, intersect |-> intersect]
    ELSE LET res == PrimitiveGetIntersect(index[k], k, r, intersect)
             rest == AccelScan(index, r, res.intersect, k + 1)
         IN  [flag |-> res.flag \/ rest.flag, intersect |-> rest.intersect]
AccelGetIntersect(a, r, intersect) ==
    LET res == AccelScan(a.index, r, intersect, 1)
    IN  [ret |-> res.flag, intersect |-> res.intersect]

\* Scene::GetIntersect
SceneGetIntersect(buf, a, r, intersect) ==
    LET reset == IF intersect.given THEN [intersect EXCEPT !.t = FLT_MAX]
                 ELSE intersect
    IN  IF ~a.present
        THEN [path |-> "bruteforce"] @@ BfIntersect(buf, r, reset)
        ELSE [path |-> "accelerator"] @@ AccelGetIntersect(a, r, reset)

GetIntersect ==
    /\ fault = "none"
    /\ \E r \in Rays, given \in BOOLEAN, t0 \in {0, FLT_MAX},
          k0 \in {NULL, Min(1, Len(m_primitiveBuf))} :
         LET prior == IF given THEN Record(t0, k0) ELSE NoRecord
             res == SceneGetIntersect(m_primitiveBuf, accel, r, prior)
         IN  /\ ~given => (t0 = FLT_MAX /\ k0 = NULL)
             /\ last' = [NoQuery EXCEPT !.op = "GetIntersect", !.path = res.path,
                            !.tMax = r.tMax, !.withHit = given,
                            !.ret = res.ret, !.t = res.intersect.t,
                            !.primitive = res.intersect.primitive]
    /\ UNCHANGED <<sceneVars, accel, accelCalls, preProcessed, bbPc, bbIt, bbTmp, bbReturned, bbAfterReturn, fault>>

\* --------------------------------------------------------------- PreProcess
RECURSIVE UnionOfBoxes(_, _)
UnionOfBoxes(prims, box) ==
    IF prims = <<>> THEN box
    ELSE UnionOfBoxes(Tail(prims), BBoxUnion(box, PrimitiveGetBBox(Head(prims))))

\* Accelerator::SetPrimitives: keeps the pointer it is given, not a copy
AccelSetPrimitives(a, ref) == [a EXCEPT !.prims = ref]
\* Accelerator::Build: indexes the buffer its pointer names; nothing when unbound
AccelBuild(a, buf) ==
    IF a.prims = "m_primitiveBuf"
    THEN [a EXCEPT !.built = TRUE, !.index = buf, !.box = UnionOfBoxes(buf, EmptyBox)]
    ELSE [a EXCEPT !.built = TRUE, !.index = <<>>, !.box = EmptyBox]

PreProcessBuildFirst ==
    /\ fault = "none"
    /\ WorkersIdle
    /\ IF accel.present
       THEN /\ accel' = AccelSetPrimitives(AccelBuild(accel, m_primitiveBuf),
                                           "m_primitiveBuf")
            /\ accelCalls' = <<"Build", "SetPrimitives">>
       ELSE /\ accelCalls' = <<>>
            /\ UNCHANGED accel
    /\ preProcessed' = TRUE
    /\ last' = [NoQuery EXCEPT !.op = "PreProcess"]
    /\ UNCHANGED <<sceneVars, bbPc, bbIt, bbTmp, bbReturned, bbAfterReturn, fault>>

PreProcess ==
    /\ fault = "none"
    /\ WorkersIdle
    /\ IF accel.present
       THEN /\ accel' = AccelBuild(AccelSetPrimitives(accel, "m_primitiveBuf"),
                                   m_primitiveBuf)
            /\ accelCalls' = <<"SetPrimitives", "Build">>
       ELSE /\ accelCalls' = <<>>
            /\ UNCHANGED accel
    /\ preProcessed' = TRUE
    /\ last' = [NoQuery EXCEPT !.op = "PreProcess"]
    /\ UNCHANGED <<sceneVars, bbPc, bbIt, bbTmp, bbReturned, bbAfterReturn, fault>>

\* ------------------------------------------------------------------ GetBBox
\* Two workers inside GetBBox race on m_BBox: BBox::Union reads the box and
\* stores the enlarged one, and another worker's store may fall in between.
AccelGetBBox(a) == a.box

\* line 164-168: the accelerator's box, or the iterator set to begin()
GetBBoxCall(t) ==
    /\ fault = "none"
    /\ bbPc[t] = "idle"
    /\ IF accel.present
       THEN /\ last' = [NoQuery EXCEPT !.op = "GetBBox", !.path = "accelerator",
                                       !.box = AccelGetBBox(accel)]
            /\ UNCHANGED <<bbPc, bbIt, bbAfterReturn>>
       ELSE /\ bbPc' = [bbPc EXCEPT ![t] = "read"]
            /\ bbIt' = [bbIt EXCEPT ![t] = 1]
            /\ bbAfterReturn' = [bbAfterReturn EXCEPT ![t] = bbReturned]
            /\ UNCHANGED last
    /\ UNCHANGED <<sceneVars, accel, accelCalls, preProcessed, bbTmp, bbReturned, fault>>

\* line 171, first half: Union reads m_BBox and the primitive's box
GetBBoxUnionRead(t) ==
    /\ fault = "none"
    /\ bbPc[t] = "read"
    /\ bbIt[t] <= Len(m_primitiveBuf)
    /\ bbTmp' = [bbTmp EXCEPT ![t] =
                    BBoxUnion(m_BBox, PrimitiveGetBBox(m_primitiveBuf[bbIt[t]]))]
    /\ bbPc' = [bbPc EXCEPT ![t] = "write"]
    /\ UNCHANGED <<sceneVars, accel, accelCalls, preProcessed, bbIt, bbReturned, bbAfterReturn, last, fault>>

\* line 171-172, second half: Union stores the enlarged box; it++
GetBBoxUnionWrite(t) ==
    /\ fault = "none"
    /\ bbPc[t] = "write"
    /\ m_BBox' = bbTmp[t]
    /\ bbTmp' = [bbTmp EXCEPT ![t] = EmptyBox]
    /\ bbIt' = [bbIt EXCEPT ![t] = @ + 1]
    /\ bbPc' = [bbPc EXCEPT ![t] = "read"]
    /\ UNCHANGED <<m_entities, m_primitiveBuf, m_lights, m_skyLight, m_lightsDis,
                   accel, accelCalls, preProcessed, bbReturned, bbAfterReturn, last, fault>>

\* line 174: the loop is over, m_BBox is returned
GetBBoxReturn(t) ==
    /\ fault = "none"
    /\ bbPc[t] = "read"
    /\ bbIt[t] > Len(m_primitiveBuf)
    /\ last' = [NoQuery EXCEPT !.op = "GetBBox", !.path = "bruteforce",
                               !.box = m_BBox]
    /\ bbPc' = [bbPc EXCEPT ![t] = "idle"]
    /\ bbIt' = [bbIt EXCEPT ![t] = 0]
    /\ bbReturned' = TRUE
    /\ bbAfterReturn' = [bbAfterReturn EXCEPT ![t] = FALSE]
    /\ UNCHANGED <<sceneVars, accel, accelCalls, preProcessed, bbTmp, fault>>

\* -------------------------------------------------------------------- lights
\* Distribution1D::SampleDiscrete(u), u = k / UDen: the first entry of the
\* normalised cdf that is >= u, found by binary search; id -1 and pdf 0 when the
\* distribution is empty (total weight 0)
RECURSIVE LowerBound(_, _, _, _)
LowerBound(dis, k, lo, hi) ==
    IF lo >= hi THEN lo
    ELSE LET mid == (lo + hi) \div 2
         IN  IF dis.cdf[mid] * UDen >= k * dis.total
             THEN LowerBound(dis, k, lo, mid)
             ELSE LowerBound(dis, k, mid + 1, hi)
SampleDiscrete(dis, k) ==
    IF dis.total = 0 THEN [id |-> 0 - 1, pdf |-> <<0, 1>>]
    ELSE LET i == LowerBound(dis, k, 1, Len(dis.cdf))
         IN  [id |-> i - 1, pdf |-> FDiv(dis.weights[i], dis.total)]
\* Distribution1D::GetProperty(i), i counted from 0
GetProperty(dis, i) == FDiv(dis.weights[i + 1], dis.total)

\* sAssert on a null m_lightsDis: a debug build aborts in the assertion, a release
\* build compiles it out and dereferences the null pointer
NullDistributionFaults == {"assert", "segv"}

\* lines 205-211
SampleLightResult(lights, dis, k) ==
    LET s == SampleDiscrete(dis, k)
    IN  IF s.id >= 0 /\ s.id < Len(lights) /\ s.pdf[1] # 0
        THEN [light |-> s.id + 1, pdf |-> s.pdf]
        ELSE [light |-> NULL, pdf |-> <<0, 1>>]

SampleLight ==
    /\ fault = "none"
    /\ \E k \in 0..UDen :
         IF ~m_lightsDis.set
         THEN /\ fault' \in NullDistributionFaults
              /\ last' = [NoQuery EXCEPT !.op = "SampleLight", !.u = k]
         ELSE LET res == SampleLightResult(m_lights, m_lightsDis, k)
              IN  /\ last' = [NoQuery EXCEPT !.op = "SampleLight", !.u = k,
                                 !.ret = res.light # NULL, !.light = res.light,
                                 !.pdf = res.pdf]
                  /\ UNCHANGED fault
    /\ UNCHANGED <<sceneVars, accel, accelCalls, preProcessed, bbPc, bbIt, bbTmp, bbReturned, bbAfterReturn>>

LightProperbility ==
    /\ fault = "none"
    /\ IF ~m_lightsDis.set
       THEN /\ fault' \in NullDistributionFaults
            /\ last' = [NoQuery EXCEPT !.op = "LightProperbility"]
       ELSE \E i \in 0..(Len(m_lightsDis.weights) - 1) :
              /\ last' = [NoQuery EXCEPT !.op = "LightProperbility", !.light = i + 1,
                             !.pdf = GetProperty(m_lightsDis, i)]
              /\ UNCHANGED fault
    /\ UNCHANGED <<sceneVars, accel, accelCalls, preProcessed, bbPc, bbIt, bbTmp, bbReturned, bbAfterReturn>>

\* Scene::Le: the sky light's radiance (ret), or zero
Le ==
    /\ fault = "none"
    /\ last' = [NoQuery EXCEPT !.op = "Le", !.ret = m_skyLight]
    /\ UNCHANGED <<sceneVars, accel, accelCalls, preProcessed, bbPc, bbIt, bbTmp, bbReturned, bbAfterReturn, fault>>

\* ------------------------------------------------------------ specifications
LoadScene == LoadSceneOf(EntitySet)
LoadGeometry == LoadSceneOf(GeometryEntities)
LoadLights == LoadSceneOf(LightEntities)

GetBBox ==
    \E t \in Threads :
        \/ GetBBoxCall(t)
        \/ GetBBoxUnionRead(t)
        \/ GetBBoxUnionWrite(t)
        \/ GetBBoxReturn(t)

Query == GetIntersect \/ GetBBox \/ SampleLight \/ LightProperbility \/ Le

Next == LoadScene \/ PreProcess \/ Query

\* Three slices of Next, each explored exhaustively.  The lights, the bounding
\* box and the intersection queries share no state: a slice leaves out the
\* operations (and the entities) that neither read nor write what it is about.

\* the light registry and its queries alone
NextLights == LoadLights \/ SampleLight \/ LightProperbility
SpecLights == Init /\ [][NextLights]_vars

\* the geometry and the bounding box alone
NextBBox == LoadGeometry \/ PreProcess \/ GetBBox
SpecBBox == Init /\ [][NextBBox]_vars

\* the geometry and the intersection queries alone
NextIntersect == LoadGeometry \/ PreProcess \/ GetIntersect
SpecIntersect == Init /\ [][NextIntersect]_vars

\* the whole Scene
Spec == Init /\ [][Next]_vars

\* ================================================================== claims
LastRay == [tMax |-> last.tMax]
\* the buffer indices of the primitives that intersect the last query's ray
\* inside its valid range [0, tMax]
Intersecting == {k \in 1..Len(m_primitiveBuf) : PrimitiveHits(m_primitiveBuf[k], LastRay)}
IsMinDistance(t) ==
    /\ \E k \in Intersecting : m_primitiveBuf[k].x = t
    /\ \A k \in Intersecting : t <= m_primitiveBuf[k].x
BruteForceClosestHitQuery ==
    last.op = "GetIntersect" /\ last.path = "bruteforce" /\ last.withHit
ShadowRayQuery ==
    last.op = "GetIntersect" /\ last.path = "bruteforce" /\ ~last.withHit

\* C1 as stated: without an accelerator and with a hit record, GetIntersect
\* returns true exactly when some primitive intersects the ray inside its valid
\* range [0, tMax], and then hit.t is the minimum intersection distance,
\* 0 <= hit.t <= tMax, and hit.primitive is not null.
C1_ClosestHitInRange ==
    BruteForceClosestHitQuery =>
        /\ last.ret = (Intersecting # {})
        /\ last.ret => /\ IsMinDistance(last.t)
                       /\ 0 <= last.t /\ last.t <= last.tMax
                       /\ last.primitive # NULL

\* C1 as amended: without an accelerator and with a hit record, GetIntersect
\* returns true exactly when some primitive intersects the ray at a distance
\* strictly below tMax; then hit.t is the minimum intersection distance over the
\* primitives that intersect the ray, 0 <= hit.t < tMax, and hit.primitive is a
\* primitive of the buffer at that distance.
C1_ClosestHitBelowMax ==
    BruteForceClosestHitQuery =>
        /\ last.ret = (\E k \in Intersecting : m_primitiveBuf[k].x < last.tMax)
        /\ last.ret => /\ IsMinDistance(last.t)
                       /\ 0 <= last.t /\ last.t < last.tMax
                       /\ last.primitive # NULL
                       /\ last.primitive \in Intersecting
                       /\ m_primitiveBuf[last.primitive].x = last.t
\* a hit reported at the distance of a primitive that comes later in the buffer
\* than a farther one the ray also intersects
C1_Witness ==
    /\ BruteForceClosestHitQuery /\ last.ret
    /\ \E j, k \in Intersecting :
          /\ j < k
          /\ m_primitiveBuf[k].x < m_primitiveBuf[j].x
          /\ last.t = m_primitiveBuf[k].x

\* C7: whenever GetIntersect with a hit record returns false, hit.t is FLT_MAX.
C7_NoHitLeavesInfinity ==
    (last.op = "GetIntersect" /\ last.withHit /\ ~last.ret) => last.t = FLT_MAX

\* C9: without an accelerator and without a hit record, GetIntersect returns true
\* iff at least one primitive of the buffer reports an intersection with the ray.
C9_ShadowRayAnyHit ==
    ShadowRayQuery =>
        (last.ret = (\E k \in 1..Len(m_primitiveBuf) :
                        PrimitiveGetIntersect(m_primitiveBuf[k], k, LastRay, NoRecord).flag))
\* a shadow ray that returned true although the first primitive does not
\* intersect it and two later ones do, at different distances
C9_Witness ==
    /\ ShadowRayQuery /\ last.ret
    /\ 1 \notin Intersecting
    /\ \E j, k \in Intersecting : m_primitiveBuf[j].x < m_primitiveBuf[k].x

\* C10: PreProcess with an accelerator binds the scene's own buffer to it (the
\* pointer, not a copy) and then builds it: SetPrimitives, then Build, once each;
\* without an accelerator it changes nothing and GetIntersect takes the
\* brute-force path.
InitialAccel(present) ==
    [present |-> present, prims |-> "null", built |-> FALSE, index |-> <<>>,
     box |-> EmptyBox]
RECURSIVE SumPowers(_)
SumPowers(lights) ==
    IF lights = <<>> THEN 0 ELSE Head(lights).power + SumPowers(Tail(lights))
RECURSIVE SumPicks(_)
SumPicks(lights) ==
    IF lights = <<>> THEN <<0, 1>> ELSE FracAdd(Head(lights).pick, SumPicks(Tail(lights)))

\* C2: SampleLight on a scene with no lights returns no light, without an error
\* or a crash.
C2_NoLightsSampleFails ==
    (last.op = "SampleLight" /\ Len(m_lights) = 0) =>
        (fault = "none" /\ ~last.ret /\ last.light = NULL)

\* C4: after _genLightDistribution on n >= 1 lights of positive total power, every
\* light's pick probability is power_i / sum_j power_j, and they sum to 1.
C4_PickProbabilities ==
    (Len(m_lights) >= 1 /\ SumPowers(m_lights) > 0) =>
        /\ \A i \in 1..Len(m_lights) :
              FracEq(m_lights[i].pick, <<m_lights[i].power, SumPowers(m_lights)>>)
        /\ FracEq(SumPicks(m_lights), <<1, 1>>)
\* powers {1, 3} with pick probabilities {1/4, 3/4}
C4_Witness ==
    /\ Len(m_lights) = 2
    /\ m_lights[1].power = 1 /\ m_lights[2].power = 3
    /\ FracEq(m_lights[1].pick, <<1, 4>>) /\ FracEq(m_lights[2].pick, <<3, 4>>)

\* C5: every light's pick probability is assigned exactly once over the scene's
\* lifetime, after all lights are known: never a second time.
C5_PickAssignedExactlyOnce ==
    \A i \in 1..Len(m_lights) : m_lights[i].writes = 1

\* C8: with lights of total power 0, building the distribution divides by no zero
\* total (no pick probability is NaN), and every SampleLight returns no light.
C8_ZeroPowerHandled ==
    (Len(m_lights) >= 1 /\ SumPowers(m_lights) = 0) =>
        /\ \A i \in 1..Len(m_lights) : ~IsNaN(m_lights[i].pick)
        /\ last.op = "SampleLight" => (fault = "none" /\ last.light = NULL)

\* --------------------------------------------------------------------- bbox
\* worker t starts a BBox::Union in this step
UnionPerformed(t) == bbPc[t] = "read" /\ bbPc'[t] = "write"

\* C3: once PreProcess has returned, no step of a query writes a field of the
\* Scene, the cached m_BBox included.
C3_QueriesWriteNothing ==
    [][(preProcessed /\ Query) => UNCHANGED sceneVars]_vars

\* C6: without an accelerator the union of the primitives' boxes is computed once
\* into m_BBox: a call that begins after a call has returned, with m_BBox still
\* the union of the buffer's boxes, performs no union.
C6_BBoxComputedOnce ==
    [][\A t \in Threads :
          (bbAfterReturn[t] /\ m_BBox = UnionOfBoxes(m_primitiveBuf, EmptyBox))
              => ~UnionPerformed(t)]_vars

====
